---- MODULE Spec2Model ----
(***************************************************************************)
(* Model of the ESA edge-function reverse proxy.                           *)
(*   src/edge-function.js   : fetch / handleProxyRequest /                 *)
(*                            createProxyHeaders / rewriteHtml             *)
(*   src/unnamed/part_000   : handleRequest / createProxyHeaders /         *)
(*                            rewriteHtml (the older service-worker form)  *)
(*                                                                         *)
(* Text (URLs, HTML, message bodies) is a sequence of lexemes.  A lexeme   *)
(* is a record [c, n]: c is the piece of text, n the number of times       *)
(* encodeURIComponent has been applied to it ("/" with n = 1 is "%2F",     *)
(* with n = 2 it is "%252F").  Only a lexeme with n = 0 can act as syntax. *)
(***************************************************************************)
EXTENDS Integers, Sequences, FiniteSets, TLC

VARIABLES
    pc,          \* position of the request handler
    impl,        \* which source file handles the request: "edge" or "legacy"
    path,        \* url.pathname of the inbound request
    method,      \* inbound request method
    targetUrl,   \* url.searchParams.get('url'): <<>> when missing
    up,          \* the upstream's behaviour: status, headers, body
    timer,       \* setTimeout state: "unset", "armed", "fired", "cleared"
    fetchState,  \* outbound fetch promise: "none", "pending", "resolved", "rejected"
    fetchCount,  \* number of outbound fetch calls issued for this request
    aborts,      \* log of controller.abort() calls: the fetchState each one met
    error,       \* the error thrown inside the handler, if any
    proxyRequest,\* the Request handed to fetch
    resp,        \* the Response returned to the client
    html,        \* rewrite harness: the document under rewrite
    rwTarget,    \* rewrite harness: the target URL
    once,        \* rewrite harness: rewriteHtml(html)
    twice,       \* rewrite harness: rewriteHtml(rewriteHtml(html))
    rwpc,        \* rewrite harness: position
    inbound,     \* header harness: inbound header list (name, value pairs)
    targetHost,  \* header harness: target.host
    outHeaders,  \* header harness: headers returned by createProxyHeaders
    hpc          \* header harness: position

vars == <<pc, impl, path, method, targetUrl, up, timer, fetchState, fetchCount,
          aborts, error, proxyRequest, resp, html, rwTarget, once, twice, rwpc,
          inbound, targetHost, outHeaders, hpc>>

handlerVars == <<pc, impl, path, method, targetUrl, up, timer, fetchState,
                 fetchCount, aborts, error, proxyRequest, resp>>
rewriteVars == <<html, rwTarget, once, twice, rwpc>>
headerVars  == <<inbound, targetHost, outHeaders, hpc>>

----------------------------------------------------------------------------
(* Text                                                                    *)

T(c) == [c |-> c, n |-> 0]
Lit(s) == [i \in DOMAIN s |-> T(s[i])]

SubSeqFrom(s, i) == SubSeq(s, i, Len(s))
startsWith(s, p) == Len(s) >= Len(p) /\ SubSeq(s, 1, Len(p)) = p
includes(s, p) ==
    \E i \in 1..(Len(s) - Len(p) + 1) : SubSeq(s, i, i + Len(p) - 1) = p

\* index of the first element of s, at or after i, that is in S; 0 if none
FirstIn(s, i, S) ==
    LET I == {k \in i..Len(s) : s[k] \in S}
    IN IF I = {} THEN 0 ELSE CHOOSE k \in I : \A j \in I : k <= j
\* index of the first element of s, at or after i, that is not in S; 0 if none
FirstNotIn(s, i, S) ==
    LET I == {k \in i..Len(s) : s[k] \notin S}
    IN IF I = {} THEN 0 ELSE CHOOSE k \in I : \A j \in I : k <= j

RECURSIVE Flatten(_)
Flatten(ss) == IF ss = <<>> THEN <<>> ELSE Head(ss) \o Flatten(Tail(ss))

\* characters encodeURIComponent leaves alone: A-Z a-z 0-9 - _ . ! ~ * ' ( )
Unreserved == {"h", "c", "p", "a", "b", ".", "..", "fetch", "url(", ")"}

encodeURIComponent(s) ==
    [i \in DOMAIN s |->
        IF s[i].n = 0 /\ s[i].c \in Unreserved THEN s[i]
        ELSE [c |-> s[i].c, n |-> s[i].n + 1]]

\* byte length of a text: every encodeURIComponent pass turns each reserved
\* character (or each "%") of a lexeme into three bytes
Width(c) ==
    CASE c \in {"http:", "ftp:", "data:", "tel:"} -> 5
      [] c = "https:"      -> 6
      [] c = "mailto:"     -> 7
      [] c = "javascript:" -> 11
      [] c = "proxy?url="  -> 10
      [] c = "fetch"       -> 5
      [] c = ".."          -> 2
      [] c = "<img"        -> 4
      [] c = "<link"       -> 5
      [] c = "<a"          -> 2
      [] c = "<base"       -> 5
      [] c = "src="        -> 4
      [] c = "href="       -> 5
      [] c = "url("        -> 4
      [] c = "<head>"      -> 6
      [] c = "</head>"     -> 7
      [] c = "<script>"    -> 8
      [] c = "</script>"   -> 9
      [] OTHER             -> 1
ReservedIn(c) ==
    CASE c \in Unreserved   -> 0
      [] c = "proxy?url="  -> 2
      [] c \in {"src=", "href="} -> 1
      [] c \in {"<img", "<link", "<a", "<base"} -> 1
      [] c \in {"<head>", "<script>"} -> 2
      [] c \in {"</head>", "</script>"} -> 3
      [] OTHER             -> 1
RECURSIVE byteLength(_)
byteLength(s) ==
    IF s = <<>> THEN 0
    ELSE Width(Head(s).c) + 2 * Head(s).n * ReservedIn(Head(s).c)
         + byteLength(Tail(s))

----------------------------------------------------------------------------
(* new URL(input) and new URL(input, base): the WHATWG URL parser on the   *)
(* lexemes above.  The result is [ok, protocol, host, href].               *)

SchemeLexemes == {"http:", "https:", "ftp:", "data:", "javascript:", "mailto:", "tel:"}
SpecialSchemes == {"http:", "https:", "ftp:"}
Slash == T("/")
Failure == [ok |-> FALSE, protocol |-> "", host |-> <<>>, href |-> <<>>]

IsScheme(t) == t.n = 0 /\ t.c \in SchemeLexemes

\* the parser percent-encodes ">" in paths and fragments
PathEncode(s) ==
    [i \in DOMAIN s |-> IF s[i] = T(">") THEN [c |-> ">", n |-> 1] ELSE s[i]]

\* path lexemes (starting with "/") -> sequence of segments
RECURSIVE Segments(_)
SegmentsAt(rest, nxt) ==
    IF nxt = 0 THEN <<rest>>
    ELSE <<SubSeq(rest, 1, nxt - 1)>> \o Segments(SubSeqFrom(rest, nxt))
Segments(p) ==
    IF p = <<>> THEN <<>> ELSE SegmentsAt(Tail(p), FirstIn(Tail(p), 1, {Slash}))

\* removal of "." and ".." segments; a trailing dot segment leaves an empty one
DropLast(out) == IF out # <<>> THEN SubSeq(out, 1, Len(out) - 1) ELSE out
Pad(segs) == IF Len(segs) = 1 THEN << <<>> >> ELSE <<>>
DotStep(s, segs, out) ==
    IF s = Lit(<<"..">>) THEN DropLast(out) \o Pad(segs)
    ELSE IF s = Lit(<<".">>) THEN out \o Pad(segs)
    ELSE Append(out, s)
RECURSIVE RemoveDots(_, _)
RemoveDots(segs, out) ==
    IF segs = <<>> THEN out
    ELSE RemoveDots(Tail(segs), DotStep(Head(segs), segs, out))

RECURSIVE JoinSegments(_)
JoinSegments(segs) ==
    IF segs = <<>> THEN <<>>
    ELSE <<Slash>> \o Head(segs) \o JoinSegments(Tail(segs))

\* path state: p is <<>> or starts with "/"; h is the position of a fragment
NormalizeAt(p, h) ==
    PathEncode(
        (IF (IF h = 0 THEN p ELSE SubSeq(p, 1, h - 1)) = <<>> THEN <<Slash>>
         ELSE JoinSegments(RemoveDots(
                  Segments(IF h = 0 THEN p ELSE SubSeq(p, 1, h - 1)), <<>>)))
        \o (IF h = 0 THEN <<>> ELSE SubSeqFrom(p, h)))
NormalizePath(p) == NormalizeAt(p, FirstIn(p, 1, {T("#")}))

\* host state: an unclosed "[" or a forbidden host code point fails the parse
BadHost(hst) ==
    hst = <<>> \/ \E i \in DOMAIN hst : hst[i].n = 0 /\ hst[i].c \in {"[", ">", "\""}
MakeURL(scheme, hst, pth) ==
    IF BadHost(hst) THEN Failure
    ELSE [ok |-> TRUE, protocol |-> scheme, host |-> hst,
          href |-> <<T(scheme), Slash, Slash>> \o hst \o NormalizePath(pth)]

\* authority state: rest is what follows the slashes after the scheme, e the
\* position of the lexeme that ends the authority
AuthorityAt(scheme, rest, e) ==
    MakeURL(scheme,
            IF e = 0 THEN rest ELSE SubSeq(rest, 1, e - 1),
            IF e = 0 THEN <<>>
            ELSE IF rest[e] = T("#") THEN <<Slash>> \o SubSeqFrom(rest, e)
            ELSE SubSeqFrom(rest, e))
ParseAuthority(scheme, rest) ==
    AuthorityAt(scheme, rest, FirstIn(rest, 1, {Slash, T("#")}))

SkipFrom(s, k) == IF k = 0 THEN <<>> ELSE SubSeqFrom(s, k)
SkipSlashes(s) == SkipFrom(s, FirstNotIn(s, 1, {Slash}))

\* new URL(input)
URL(input) ==
    IF input = <<>> \/ ~IsScheme(input[1]) THEN Failure
    ELSE IF input[1].c \in SpecialSchemes \/ startsWith(Tail(input), <<Slash, Slash>>)
    THEN ParseAuthority(input[1].c, SkipSlashes(Tail(input)))
    ELSE [ok |-> TRUE, protocol |-> input[1].c, host |-> <<>>, href |-> input]

\* a reference with its own scheme is parsed on its own, unless the scheme is
\* the base's special scheme and no "//" follows: then the rest is relative
IsAbsoluteRef(input, b) ==
    /\ input # <<>> /\ IsScheme(input[1])
    /\ ~(input[1].c = b.protocol /\ ~startsWith(Tail(input), <<Slash, Slash>>))
RelativePart(input, b) ==
    IF input # <<>> /\ IsScheme(input[1]) THEN Tail(input) ELSE input

\* relative state: rel against the parsed base b (an http(s) URL with path "/")
ResolveRelative(rel, b) ==
    IF startsWith(rel, <<Slash, Slash>>)
    THEN ParseAuthority(b.protocol, SkipSlashes(rel))
    ELSE [ok |-> TRUE, protocol |-> b.protocol, host |-> b.host,
          href |-> <<T(b.protocol), Slash, Slash>> \o b.host
                   \o NormalizePath(IF startsWith(rel, <<Slash>>) THEN rel
                                    ELSE <<Slash>> \o rel)]

Resolve(input, b) ==
    IF ~b.ok THEN Failure
    ELSE IF IsAbsoluteRef(input, b) THEN URL(input)
    ELSE ResolveRelative(RelativePart(input, b), b)

\* new URL(input, base)
URLWithBase(input, base) == Resolve(input, URL(base))

----------------------------------------------------------------------------
(* rewriteHtml: String.prototype.replace with a global regular expression  *)
(* and a callback, on lexemes.  A pass is one replace call; its kind names *)
(* the regular expression and the callback.                                *)
(*   edge-function.js: "src", "link"                                       *)
(*   part_000:         "base", "lsrc", "lhref", "css"                      *)

Space == T(" ")
Quotes == {T("\""), T("'")}
\* lexemes that contain the character ">": [^>]* cannot cross them
GtLexemes == {T(">"), T("<head>"), T("</head>"), T("<script>"), T("</script>")}
\* a match: the value is s[from..to], the match ends at k
NoMatch == [hit |-> FALSE, from |-> 0, to |-> 0, k |-> 0]
ProxyMarker == Lit(<<"/", "proxy?url=">>)

SrcTags == {T("<img"), T("<script"), T("<iframe"), T("<embed"), T("<audio"),
            T("<video"), T("<source")}
LinkTags == {T("<link")}
AnchorTags == {T("<a"), T("<link")}

\* positions j of attr= between the tag and the next ">" from which
\* attr=["']([^"']+)(["']) matches
AttrCandidates(s, i, attr, gt) ==
    {j \in (i + 2)..(IF gt = 0 THEN Len(s) ELSE gt - 1) :
        /\ s[j] = T(attr)
        /\ j + 2 <= Len(s)
        /\ s[j + 1] \in Quotes
        /\ s[j + 2] \notin Quotes
        /\ FirstIn(s, j + 2, Quotes) # 0}
LastOf(J) == CHOOSE x \in J : \A y \in J : y <= x
AttrAt(s, j) == [hit |-> TRUE, from |-> j + 2, to |-> FirstIn(s, j + 2, Quotes) - 1,
                 k |-> FirstIn(s, j + 2, Quotes)]
PickLast(s, J) == IF J = {} THEN NoMatch ELSE AttrAt(s, LastOf(J))
\* (<(?:tags)\s+[^>]*attr=["'])([^"']+)(["']) tried at position i of s;
\* [^>]* is greedy: the last attr= before the next ">" is the one matched
AttrMatch(s, i, tags, attr) ==
    IF ~(s[i] \in tags /\ i + 1 <= Len(s) /\ s[i + 1] = Space) THEN NoMatch
    ELSE PickLast(s, AttrCandidates(s, i, attr, FirstIn(s, i + 2, GtLexemes)))

\* /<base\s+href=["']([^"']+)["']/gi tried at position i
BaseMatch(s, i) ==
    IF /\ i + 4 <= Len(s)
       /\ s[i] = T("<base") /\ s[i + 1] = Space /\ s[i + 2] = T("href=")
       /\ s[i + 3] \in Quotes /\ s[i + 4] \notin Quotes
       /\ FirstIn(s, i + 4, Quotes) # 0
    THEN AttrAt(s, i + 2)
    ELSE NoMatch

\* /url\(["']?([^"')]+)["']?\)/gi tried at position i: v0 is the first lexeme
\* of the value, e the lexeme after it
CssAt(s, v0, e) ==
    IF e = 0 \/ e = v0 THEN NoMatch
    ELSE IF s[e] = T(")") THEN [hit |-> TRUE, from |-> v0, to |-> e - 1, k |-> e]
    ELSE IF e + 1 <= Len(s) /\ s[e + 1] = T(")")
    THEN [hit |-> TRUE, from |-> v0, to |-> e - 1, k |-> e + 1]
    ELSE NoMatch
CssFrom(s, v0) == CssAt(s, v0, FirstIn(s, v0, Quotes \cup {T(")")}))
CssMatch(s, i) ==
    IF s[i] # T("url(") THEN NoMatch
    ELSE CssFrom(s, IF i + 1 <= Len(s) /\ s[i + 1] \in Quotes THEN i + 2 ELSE i + 1)

MatchAt(s, i, kind) ==
    CASE kind = "src"   -> AttrMatch(s, i, SrcTags, "src=")
      [] kind = "link"  -> AttrMatch(s, i, LinkTags, "href=")
      [] kind = "base"  -> BaseMatch(s, i)
      [] kind = "lsrc"  -> AttrMatch(s, i, SrcTags, "src=")
      [] kind = "lhref" -> AttrMatch(s, i, AnchorTags, "href=")
      [] kind = "css"   -> CssMatch(s, i)

\* `${target.protocol}//${target.host}`
originOf(t) == <<T(t.protocol), Slash, Slash>> \o t.host
baseUrlOf(target) == originOf(URL(target))

\* `${proxyOrigin}/proxy?url=${encodeURIComponent(u)}`
Wrap(proxyOrigin, u) == proxyOrigin \o ProxyMarker \o encodeURIComponent(u)

isAbsoluteHttp(v) ==
    \/ startsWith(v, Lit(<<"http:", "/", "/">>))
    \/ startsWith(v, Lit(<<"https:", "/", "/">>))

\* the scheme put before a "//" reference (edge-function.js:268 and 299)
protocolRelativeScheme(baseUrl) == "https:"

\* In the callbacks below u is new URL(value, baseUrl), which the code
\* computes only on the branch that uses it.

\* callback of the src replace, edge-function.js:251-282: the new value
srcValue(src, u, baseUrl, proxyOrigin) ==
    IF includes(src, ProxyMarker) THEN src
    ELSE IF startsWith(src, Lit(<<"data:">>)) THEN src
    ELSE IF isAbsoluteHttp(src) THEN Wrap(proxyOrigin, src)
    ELSE IF startsWith(src, <<Slash, Slash>>)
    THEN Wrap(proxyOrigin, <<T(protocolRelativeScheme(baseUrl))>> \o src)
    ELSE IF startsWith(src, <<Slash>>) THEN Wrap(proxyOrigin, baseUrl \o src)
    ELSE IF u.ok THEN Wrap(proxyOrigin, u.href) ELSE src

\* callback of the <link href> replace, edge-function.js:286-312
hrefValue(href, u, baseUrl, proxyOrigin) ==
    IF includes(href, ProxyMarker) THEN href
    ELSE IF isAbsoluteHttp(href) THEN Wrap(proxyOrigin, href)
    ELSE IF startsWith(href, <<Slash, Slash>>)
    THEN Wrap(proxyOrigin, <<T(protocolRelativeScheme(baseUrl))>> \o href)
    ELSE IF startsWith(href, <<Slash>>) THEN Wrap(proxyOrigin, baseUrl \o href)
    ELSE IF u.ok THEN Wrap(proxyOrigin, u.href) ELSE href

\* The callbacks of part_000 call new URL outside any try block: a callback
\* that throws leaves the lexeme Thrown and the whole rewriteHtml call throws.
Thrown == T("<TypeError>")
resolveOrThrow(u, proxyOrigin) ==
    IF u.ok THEN Wrap(proxyOrigin, u.href) ELSE <<Thrown>>

\* part_000:146-148
legacyBaseValue(href, u, proxyOrigin) == resolveOrThrow(u, proxyOrigin)

\* part_000:152-159
legacySrcValue(src, u, proxyOrigin) ==
    IF isAbsoluteHttp(src) \/ startsWith(src, Lit(<<"data:">>))
    THEN Wrap(proxyOrigin, src)
    ELSE resolveOrThrow(u, proxyOrigin)

\* part_000:163-173
legacyHrefValue(href, u, proxyOrigin) ==
    IF \E p \in {"#", "javascript:", "mailto:", "tel:"} : startsWith(href, Lit(<<p>>))
    THEN href
    ELSE IF isAbsoluteHttp(href) THEN Wrap(proxyOrigin, href)
    ELSE resolveOrThrow(u, proxyOrigin)

\* part_000:176-183
legacyCssValue(url, u, proxyOrigin) ==
    IF isAbsoluteHttp(url) \/ startsWith(url, Lit(<<"data:">>))
    THEN Wrap(proxyOrigin, url)
    ELSE resolveOrThrow(u, proxyOrigin)

callbackWith(kind, v, u, baseUrl, proxyOrigin) ==
    CASE kind = "src"   -> srcValue(v, u, baseUrl, proxyOrigin)
      [] kind = "link"  -> hrefValue(v, u, baseUrl, proxyOrigin)
      [] kind = "base"  -> legacyBaseValue(v, u, proxyOrigin)
      [] kind = "lsrc"  -> legacySrcValue(v, u, proxyOrigin)
      [] kind = "lhref" -> legacyHrefValue(v, u, proxyOrigin)
      [] kind = "css"   -> legacyCssValue(v, u, proxyOrigin)
callback(kind, v, baseUrl, proxyOrigin) ==
    callbackWith(kind, v, URLWithBase(v, baseUrl), baseUrl, proxyOrigin)

\* the text a match is replaced by: `${before}${value}${after}`, or the
\* literal <base href="..." and url("...") of part_000
Replacement(s, i, m, kind, value) ==
    CASE kind = "base" -> Lit(<<"<base", " ", "href=", "\"">>) \o value \o Lit(<<"\"">>)
      [] kind = "css"  -> Lit(<<"url(", "\"">>) \o value \o Lit(<<"\"", ")">>)
      [] OTHER         -> SubSeq(s, i, m.from - 1) \o value \o SubSeq(s, m.to + 1, m.k)

\* one global replace: scan from i, replace each match, resume after it
RECURSIVE replacePass(_, _, _, _, _)
replaceStep(s, i, m, kind, baseUrl, proxyOrigin) ==
    IF ~m.hit THEN <<s[i]>> \o replacePass(s, i + 1, kind, baseUrl, proxyOrigin)
    ELSE Replacement(s, i, m, kind,
                     callback(kind, SubSeq(s, m.from, m.to), baseUrl, proxyOrigin))
         \o replacePass(s, m.k + 1, kind, baseUrl, proxyOrigin)
replacePass(s, i, kind, baseUrl, proxyOrigin) ==
    IF i > Len(s) THEN <<>>
    ELSE replaceStep(s, i, MatchAt(s, i, kind), kind, baseUrl, proxyOrigin)

RECURSIVE runPasses(_, _, _, _)
runPasses(doc, kinds, baseUrl, proxyOrigin) ==
    IF kinds = <<>> THEN doc
    ELSE runPasses(replacePass(doc, 1, Head(kinds), baseUrl, proxyOrigin),
                   Tail(kinds), baseUrl, proxyOrigin)

\* the replace calls of rewriteHtml, in order
passesOf(implementation) ==
    IF implementation = "edge" THEN <<"src", "link">>
    ELSE <<"base", "lsrc", "lhref", "css">>

Outcome(text) ==
    IF \E i \in DOMAIN text : text[i] = Thrown THEN [ok |-> FALSE, text |-> <<>>]
    ELSE [ok |-> TRUE, text |-> text]

\* rewriteHtml(html, targetUrl, proxyOrigin) of edge-function.js ("edge") and
\* of part_000 ("legacy"): [ok, text], ok = FALSE when the call throws
rewriteHtml(implementation, doc, target, proxyOrigin) ==
    Outcome(runPasses(doc, passesOf(implementation), baseUrlOf(target), proxyOrigin))

----------------------------------------------------------------------------
(* Headers: a header list keyed by the lower-cased name                    *)

toLowerCase(name) ==
    CASE name = "Accept"          -> "accept"
      [] name = "ACCEPT-LANGUAGE" -> "accept-language"
      [] name = "Accept-Language" -> "accept-language"
      [] name = "Content-Type"    -> "content-type"
      [] name = "Content-Length"  -> "content-length"
      [] name = "User-Agent"      -> "user-agent"
      [] name = "Cookie"          -> "cookie"
      [] name = "Authorization"   -> "authorization"
      [] name = "If-None-Match"   -> "if-none-match"
      [] name = "Host"            -> "host"
      [] name = "Content-Security-Policy" -> "content-security-policy"
      [] name = "X-Frame-Options" -> "x-frame-options"
      [] name = "Access-Control-Allow-Origin"  -> "access-control-allow-origin"
      [] name = "Access-Control-Allow-Methods" -> "access-control-allow-methods"
      [] name = "Access-Control-Allow-Headers" -> "access-control-allow-headers"
      [] OTHER -> name

\* header values are texts; Content-Length holds a number
NoHeaders == [n \in {} |-> <<>>]
hSet(h, name, value) ==
    [n \in DOMAIN h \cup {toLowerCase(name)} |->
        IF n = toLowerCase(name) THEN value ELSE h[n]]
hDelete(h, name) == [n \in DOMAIN h \ {toLowerCase(name)} |-> h[n]]
hHas(h, name) == toLowerCase(name) \in DOMAIN h
\* headers.get(name) || ''
hGetOrEmpty(h, name) == IF hHas(h, name) THEN h[toLowerCase(name)] ELSE <<>>

\* mutant: the allow-list with cookie in it
allowedHeadersWithCookie ==
    {"accept", "accept-language", "accept-encoding", "content-type",
     "user-agent", "cache-control", "cookie"}

\* edge-function.js:205-212, part_000:109-116
allowedHeaders == {"accept", "accept-language", "accept-encoding", "content-type",
                   "user-agent", "cache-control"}

DefaultUserAgent ==
    Lit(<<"Mozilla/5.0 (Windows NT 10.0; Win64; x64) AppleWebKit/537.36 (KHTML, like Gecko) Chrome/120.0.0.0 Safari/537.36">>)
DefaultAcceptLanguage == Lit(<<"en-US,en;q=0.9">>)

\* for (const [key, value] of originalHeaders.entries())
\*     if (allowedHeaders.includes(key.toLowerCase())) headers.set(key, value)
\* originalHeaders maps the names as the client sent them to their values.
copyAllowed(originalHeaders) ==
    [n \in {toLowerCase(k) : k \in {k \in DOMAIN originalHeaders :
                                        toLowerCase(k) \in allowedHeaders}} |->
        originalHeaders[CHOOSE k \in DOMAIN originalHeaders : toLowerCase(k) = n]]

withDefault(h, name, value) == IF hHas(h, name) THEN h ELSE hSet(h, name, value)

\* createProxyHeaders(originalHeaders, targetHost); only edge-function.js adds
\* the Accept-Language default
createProxyHeaders(implementation, originalHeaders, host) ==
    IF implementation = "edge"
    THEN withDefault(
             withDefault(hSet(copyAllowed(originalHeaders), "Host", host),
                         "User-Agent", DefaultUserAgent),
             "Accept-Language", DefaultAcceptLanguage)
    ELSE withDefault(hSet(copyAllowed(originalHeaders), "Host", host),
                     "User-Agent", DefaultUserAgent)

----------------------------------------------------------------------------
(* Inputs: references, documents, targets                                  *)

MaxTags == 2          \* elements per document in the rewrite harness
MaxBodyTags == 2      \* elements per upstream HTML body in the handler

ProxyOrigin == Lit(<<"https:", "/", "/", "p">>)          \* url.origin

RAbs       == Lit(<<"http:", "/", "/", "c", "/", "a">>)
RProtoRel  == Lit(<<"/", "/", "c", "/", "a">>)
RRoot      == Lit(<<"/", "a">>)
RRootDots  == Lit(<<"/", "a", "/", "..", "/", "b">>)
RDocRel    == Lit(<<"..", "/", "a">>)
RData      == Lit(<<"data:", "a">>)
RHash      == Lit(<<"#", "a">>)
RJs        == Lit(<<"javascript:", "a">>)
RMailto    == Lit(<<"mailto:", "a">>)
RTel       == Lit(<<"tel:", "a">>)
RBadRel    == Lit(<<"ftp:", "/", "/", "[">>)      \* new URL(ref, base) throws
RBadAbs    == Lit(<<"http:", "/", "/", "[">>)     \* new URL(ref, base) throws
RBadProto  == Lit(<<"/", "/", "[">>)              \* new URL(ref, base) throws
RProxied   == Wrap(ProxyOrigin, Lit(<<"http:", "/", "/", "h", "/", "a">>))
RGt        == Lit(<<"a", ">", "b">>)

Refs == {RAbs, RProtoRel, RRoot, RRootDots, RDocRel, RData, RHash, RJs, RMailto,
         RTel, RBadRel, RBadAbs, RBadProto, RProxied, RGt}

Tag(name, attr, q, v) == Lit(<<name, " ", attr, q>>) \o v \o Lit(<<q, ">">>)
\* <img src="a>b" src="c">: two src attributes, the first value holding a ">"
TwoSrc == Lit(<<"<img", " ", "src=", "\"">>) \o RGt
          \o Lit(<<"\"", " ", "src=", "\"", "c", "\"", ">">>)
Css(v) == Lit(<<"url(">>) \o v \o Lit(<<")">>)

Elements ==
    {Tag("<img", "src=", "\"", v) : v \in Refs}
    \cup {Tag("<link", "href=", "\"", v) : v \in Refs}
    \cup {Tag("<a", "href=", "\"", v) : v \in {RRoot, RHash}}
    \cup {Tag("<script", "src=", "'", RRoot), Tag("<base", "href=", "\"", RRoot),
          Css(RRoot), Css(RData), TwoSrc}

DocsOf(elements, n) ==
    {Flatten(f) : f \in UNION {[1..k -> elements] : k \in 0..n}}

RewriteTargets == {Lit(<<"http:", "/", "/", "h", "/", "a", "/", "b">>),
                   Lit(<<"https:", "/", "/", "h", "/", "a", "/", "b">>)}

Idle == <<>>

----------------------------------------------------------------------------
(* Rewrite harness: rewriteHtml applied once and twice to a document       *)

RewriteInit ==
    /\ impl \in {"edge", "legacy"}
    /\ html \in DocsOf(Elements, MaxTags)
    /\ rwTarget \in RewriteTargets
    /\ once = Idle /\ twice = Idle /\ rwpc = "init"
    /\ pc = "idle" /\ path = <<>> /\ method = "" /\ targetUrl = <<>>
    /\ up = Idle /\ timer = "unset" /\ fetchState = "none" /\ fetchCount = 0
    /\ aborts = <<>> /\ error = Idle /\ proxyRequest = Idle /\ resp = Idle
    /\ inbound = <<>> /\ targetHost = <<>> /\ outHeaders = <<>> /\ hpc = "idle"

\* rewriteHtml applied to the document, then to its own output
ApplyRewrite ==
    /\ \/ rwpc = "init"
       \/ rwpc = "once" /\ once.ok
    /\ LET out == rewriteHtml(impl, IF rwpc = "init" THEN html ELSE once.text,
                              rwTarget, ProxyOrigin)
       IN IF rwpc = "init"
          THEN once' = out /\ twice' = twice /\ rwpc' = "once"
          ELSE twice' = out /\ once' = once /\ rwpc' = "twice"
    /\ UNCHANGED <<html, rwTarget, handlerVars, headerVars>>

RewriteNext == ApplyRewrite
SpecRewrite == RewriteInit /\ [][RewriteNext]_vars

----------------------------------------------------------------------------
(* The request handler: fetch/handleProxyRequest of edge-function.js       *)
(* (impl = "edge") and handleRequest of part_000 (impl = "legacy")         *)

\* message bodies (the source's Chinese texts, named in English)
MissingTargetText   == Lit(<<"missing target URL parameter">>)
UnsupportedText     == Lit(<<"unsupported protocol type">>)
TimeoutText         == Lit(<<"request timed out: the target took too long to respond">>)
ProxyFailedPrefix   == Lit(<<"proxy request failed:", " ">>)
UnreachablePrefix   == Lit(<<"cannot reach the target site:">>)
UnreachableSuffix   == Lit(<<"possible causes: 1. 2. 3.; hint">>)
PlainText == [n \in {"content-type"} |-> Lit(<<"text/plain; charset=utf-8">>)]

\* errors: the name and the message
InvalidUrlError == [name |-> "TypeError", message |-> Lit(<<"Invalid", " ", "URL">>)]
AbortError == [name |-> "AbortError",
               message |-> Lit(<<"The", " ", "operation", " ", "was", " ", "aborted">>)]
NullBodyError == [name |-> "TypeError",
                  message |-> Lit(<<"Response", " ", "with", " ", "null", " ",
                                    "body", " ", "status", " ", "cannot", " ",
                                    "have", " ", "body">>)]
\* what a failing fetch or a failing body read rejects with
TransportErrors ==
    {[name |-> "TypeError", message |-> Lit(<<"fetch", " ", "failed">>)],
     [name |-> "TypeError", message |-> Lit(<<"network", " ", "error">>)],
     [name |-> "Error", message |-> Lit(<<"connection", " ", "refused">>)]}

ErrorResponse(status, body) ==
    [kind |-> "error", status |-> status, headers |-> PlainText, body |-> body]

\* the outer catch, edge-function.js:174-195
classifyEdge(err, target) ==
    IF includes(err.message, Lit(<<"fetch">>)) \/ includes(err.message, Lit(<<"network">>))
    THEN ErrorResponse(502, UnreachablePrefix \o target \o UnreachableSuffix)
    ELSE ErrorResponse(500, ProxyFailedPrefix \o err.message)

\* the catch of part_000:90-95
classifyLegacy(err, target) == ErrorResponse(500, ProxyFailedPrefix \o err.message)

outerCatch(implementation, err, target) ==
    IF implementation = "edge" THEN classifyEdge(err, target)
    ELSE classifyLegacy(err, target)

\* mutant: the protocol check left out
isAllowedProtocolAny(protocol) == TRUE

\* target.protocol !== 'http:' && target.protocol !== 'https:' is false
isAllowedProtocol(protocol) == protocol \in {"http:", "https:"}

\* mutant: the timer is never cleared
clearTimeoutForgotten(t) == t

\* clearTimeout(timeoutId): a timer that has fired or was never set is unaffected
clearTimeout(t) == IF t = "armed" THEN "cleared" ELSE t

\* edge-function.js:78-87, part_000:60-69
sanitizeHeaders(h) ==
    hDelete(hDelete(
        hSet(hSet(hSet(h, "Access-Control-Allow-Origin", Lit(<<"*">>)),
                  "Access-Control-Allow-Methods",
                  Lit(<<"GET, POST, PUT, DELETE, OPTIONS">>)),
             "Access-Control-Allow-Headers", Lit(<<"*">>)),
        "Content-Security-Policy"), "X-Frame-Options")

\* contentType.includes('text/html')
includesTextHtml(contentType) == includes(contentType, Lit(<<"text/html">>))

\* edge-function.js:98-157: the script text, with url.origin and baseUrl in it
injectedScript(proxyOrigin, baseUrl) ==
    Lit(<<"<script>">>) \o proxyOrigin \o Lit(<<" ">>) \o baseUrl \o Lit(<<"</script>">>)

\* modifiedHtml.replace('</head>', injectedScript + '</head>'): first match only
injectAt(text, script, k) ==
    IF k = 0 THEN text
    ELSE SubSeq(text, 1, k - 1) \o script \o SubSeqFrom(text, k)
injectBeforeHead(text, script) ==
    injectAt(text, script, FirstIn(text, 1, {T("</head>")}))

\* statuses for which new Response(body, ...) throws when body is not null
NullBodyStatuses == {204, 205, 304}

\* the body handed to the final Response of the HTML branch
finalHtmlOf(implementation, text, target, proxyOrigin) ==
    IF implementation = "edge"
    THEN injectBeforeHead(text, injectedScript(proxyOrigin, baseUrlOf(target)))
    ELSE text

\* new Response(finalHtml, {status, statusText, headers}) of the HTML branch,
\* or the catch when rewriteHtml or the constructor throws
htmlResponse(implementation, rewritten, upstream, target, proxyOrigin) ==
    IF ~rewritten.ok THEN outerCatch(implementation, InvalidUrlError, target)
    ELSE IF upstream.status \in NullBodyStatuses
    THEN outerCatch(implementation, NullBodyError, target)
    ELSE [kind |-> "rewritten", status |-> upstream.status,
          headers |-> sanitizeHeaders(upstream.headers),
          body |-> finalHtmlOf(implementation, rewritten.text, target, proxyOrigin)]

----------------------------------------------------------------------------
(* Inputs of the handler                                                   *)

\* url.pathname of the inbound request
Paths == {Lit(<<"/proxy">>), Lit(<<"/proxy", "x">>), Lit(<<"/">>),
          Lit(<<"/", "index.html">>)}
\* url.pathname.startsWith('/proxy')
isProxyPath(p) == startsWith(p, Lit(<<"/proxy">>))
Methods == {"GET", "POST"}
TargetHttp  == Lit(<<"http:", "/", "/", "h", "/", "a", "/", "b">>)
TargetHttps == Lit(<<"https:", "/", "/", "h">>)
TargetInputs ==
    {<<>>,                                   \* no url parameter
     TargetHttp, TargetHttps,
     Lit(<<"ftp:", "/", "/", "h", "/", "a">>),
     Lit(<<"data:", "a">>),
     Lit(<<"h", "/", "fetch">>),             \* no scheme: not a URL
     Lit(<<"http:", "/", "/", "[">>)}        \* bad host: not a URL
\* the inbound request's headers, as sent
RequestHeaders ==
    [n \in {"Accept", "Cookie", "Host"} |->
        CASE n = "Accept" -> Lit(<<"*/*">>)
          [] n = "Cookie" -> Lit(<<"sid=1">>)
          [] n = "Host"   -> Lit(<<"p">>)]

BodyElements ==
    {Tag("<img", "src=", "\"", RRoot), Tag("<img", "src=", "'", RBadRel),
     Tag("<link", "href=", "\"", RRoot), Tag("<link", "href=", "\"", RBadProto)}
HeadElement == Lit(<<"<head>", "</head>">>)
HtmlBodies == {h \o d : h \in {<<>>, HeadElement}, d \in DocsOf(BodyElements, MaxBodyTags)}
OpaqueBody == Lit(<<"a", "b">>)

\* upstream response headers
UpstreamHeaders(contentType, withLength, withPolicy, body) ==
    LET h1 == IF contentType = <<>> THEN NoHeaders
              ELSE hSet(NoHeaders, "Content-Type", contentType)
        h2 == IF withLength THEN hSet(h1, "Content-Length", byteLength(body)) ELSE h1
    IN IF withPolicy
       THEN hSet(hSet(h2, "Content-Security-Policy", Lit(<<"default-src 'self'">>)),
                 "X-Frame-Options", Lit(<<"DENY">>))
       ELSE h2

HtmlType == Lit(<<"text/html", ";", " ", "charset=utf-8">>)
PngType == Lit(<<"image/png">>)
Upstreams ==
    {[status |-> st, headers |-> UpstreamHeaders(HtmlType, cl, cl, b),
      body |-> b] : st \in {200, 404}, cl \in BOOLEAN, b \in HtmlBodies}
    \cup {[status |-> st, headers |-> UpstreamHeaders(ct, TRUE, FALSE, OpaqueBody),
           body |-> OpaqueBody] : st \in {200, 404}, ct \in {PngType, <<>>}}
    \cup {[status |-> 304, headers |-> UpstreamHeaders(ct, FALSE, FALSE, <<>>),
           body |-> <<>>] : ct \in {Lit(<<"text/html">>), PngType}}

----------------------------------------------------------------------------
(* Actions of the handler                                                  *)

Init ==
    /\ impl \in {"edge", "legacy"}
    /\ path \in Paths
    /\ method \in Methods
    /\ targetUrl \in TargetInputs
    /\ pc = "start" /\ up = Idle /\ timer = "unset" /\ fetchState = "none"
    /\ fetchCount = 0 /\ aborts = <<>> /\ error = Idle /\ proxyRequest = Idle
    /\ resp = Idle
    /\ html = <<>> /\ rwTarget = <<>> /\ once = Idle /\ twice = Idle /\ rwpc = "idle"
    /\ inbound = <<>> /\ targetHost = <<>> /\ outHeaders = <<>> /\ hpc = "idle"

Finish(r) == pc' = "done" /\ resp' = r

\* edge-function.js:16-19: env.ASSETS.fetch(request);
\* part_000:18-20 and 99: fetch(request)
PassThrough ==
    /\ pc = "start" /\ ~isProxyPath(path)
    /\ Finish([kind |-> "passthrough", status |-> 200, headers |-> NoHeaders,
               body |-> <<>>])
    /\ fetchCount' = IF impl = "legacy" THEN fetchCount + 1 ELSE fetchCount
    /\ UNCHANGED <<impl, path, method, targetUrl, up, timer, fetchState, aborts,
                   error, proxyRequest, rewriteVars, headerVars>>

\* edge-function.js:29-34, part_000:27-32
RejectMissing ==
    /\ pc = "start" /\ isProxyPath(path) /\ targetUrl = <<>>
    /\ Finish(ErrorResponse(400, MissingTargetText))
    /\ UNCHANGED <<impl, path, method, targetUrl, up, timer, fetchState, fetchCount,
                   aborts, error, proxyRequest, rewriteVars, headerVars>>

\* edge-function.js:38 throws, caught at 174; part_000:36 throws, caught at 90
RejectUnparseable ==
    /\ pc = "start" /\ isProxyPath(path) /\ targetUrl # <<>>
    /\ ~URL(targetUrl).ok
    /\ error' = InvalidUrlError
    /\ Finish(outerCatch(impl, InvalidUrlError, targetUrl))
    /\ UNCHANGED <<impl, path, method, targetUrl, up, timer, fetchState, fetchCount,
                   aborts, proxyRequest, rewriteVars, headerVars>>

\* edge-function.js:41-46, part_000:39-44
RejectProtocol ==
    /\ pc = "start" /\ isProxyPath(path) /\ targetUrl # <<>>
    /\ URL(targetUrl).ok
    /\ ~isAllowedProtocol(URL(targetUrl).protocol)
    /\ Finish(ErrorResponse(400, UnsupportedText))
    /\ UNCHANGED <<impl, path, method, targetUrl, up, timer, fetchState, fetchCount,
                   aborts, error, proxyRequest, rewriteVars, headerVars>>

\* edge-function.js:49-61: new Request, new AbortController, setTimeout, fetch;
\* part_000:47-54: new Request, fetch
Dispatch ==
    /\ pc = "start" /\ isProxyPath(path) /\ targetUrl # <<>>
    /\ URL(targetUrl).ok
    /\ isAllowedProtocol(URL(targetUrl).protocol)
    /\ proxyRequest' =
           [url |-> URL(targetUrl).href, method |-> method,
            headers |-> createProxyHeaders(impl, RequestHeaders, URL(targetUrl).host),
            body |-> method \notin {"GET", "HEAD"}]
    /\ timer' = IF impl = "edge" THEN "armed" ELSE timer
    /\ fetchState' = "pending"
    /\ fetchCount' = fetchCount + 1
    /\ pc' = "awaitFetch"
    /\ UNCHANGED <<impl, path, method, targetUrl, up, aborts, error, resp,
                   rewriteVars, headerVars>>

\* the setTimeout callback () => controller.abort() runs 30000 ms after
\* Dispatch unless the timer was cleared.  A pending fetch rejects with
\* AbortError and the catch at edge-function.js:63-70 answers 504; a body read
\* in progress rejects with AbortError and the outer catch answers.
TimerFires ==
    /\ timer = "armed"
    /\ timer' = "fired"
    /\ aborts' = Append(aborts, fetchState)
    /\ IF fetchState = "pending"
       THEN /\ fetchState' = "rejected"
            /\ error' = AbortError
            /\ Finish(ErrorResponse(504, TimeoutText))
       ELSE IF pc = "awaitBody"
       THEN /\ error' = AbortError
            /\ Finish(outerCatch(impl, AbortError, targetUrl))
            /\ UNCHANGED fetchState
       ELSE UNCHANGED <<fetchState, error, pc, resp>>
    /\ UNCHANGED <<impl, path, method, targetUrl, up, fetchCount, proxyRequest,
                   rewriteVars, headerVars>>

\* the fetch rejects for a reason other than the abort: edge-function.js:63-71
\* clears the timer and rethrows to the catch at 174; part_000:90
FetchFails ==
    /\ pc = "awaitFetch" /\ fetchState = "pending"
    /\ \E e \in TransportErrors :
          /\ error' = e
          /\ Finish(outerCatch(impl, e, targetUrl))
    /\ fetchState' = "rejected"
    /\ timer' = clearTimeout(timer)
    /\ UNCHANGED <<impl, path, method, targetUrl, up, fetchCount, aborts,
                   proxyRequest, rewriteVars, headerVars>>

\* the response headers arrive: edge-function.js:61-62 and 75-91 (the timer is
\* cleared, the headers rewritten); 168-172 relays a body that is not HTML.
\* part_000:54-73 and 84-88
FetchResolves ==
    /\ pc = "awaitFetch" /\ fetchState = "pending"
    /\ \E u \in Upstreams :
          /\ up' = u
          /\ IF includesTextHtml(hGetOrEmpty(sanitizeHeaders(u.headers), "Content-Type"))
             THEN pc' = "awaitBody" /\ resp' = resp
             ELSE Finish([kind |-> "relay", status |-> u.status,
                          headers |-> sanitizeHeaders(u.headers), body |-> u.body])
    /\ fetchState' = "resolved"
    /\ timer' = clearTimeout(timer)
    /\ UNCHANGED <<impl, path, method, targetUrl, fetchCount, aborts, error,
                   proxyRequest, rewriteVars, headerVars>>

\* await response.text() resolves: edge-function.js:92-165, part_000:74-81
BodyRead ==
    /\ pc = "awaitBody"
    /\ LET r == htmlResponse(impl, rewriteHtml(impl, up.body, targetUrl, ProxyOrigin),
                             up, targetUrl, ProxyOrigin)
       IN /\ Finish(r)
          /\ error' = IF r.kind = "error"
                      THEN (IF up.status \in NullBodyStatuses THEN NullBodyError
                            ELSE InvalidUrlError)
                      ELSE error
    /\ UNCHANGED <<impl, path, method, targetUrl, up, timer, fetchState, fetchCount,
                   aborts, proxyRequest, rewriteVars, headerVars>>

\* await response.text() rejects: the body stream failed
BodyReadFails ==
    /\ pc = "awaitBody"
    /\ \E e \in TransportErrors :
          /\ error' = e
          /\ Finish(outerCatch(impl, e, targetUrl))
    /\ UNCHANGED <<impl, path, method, targetUrl, up, timer, fetchState, fetchCount,
                   aborts, proxyRequest, rewriteVars, headerVars>>

Next ==
    \/ PassThrough
    \/ RejectMissing
    \/ RejectUnparseable
    \/ RejectProtocol
    \/ Dispatch
    \/ TimerFires
    \/ FetchFails
    \/ FetchResolves
    \/ BodyRead
    \/ BodyReadFails

Spec == Init /\ [][Next]_vars

----------------------------------------------------------------------------
(* Header harness: createProxyHeaders on every inbound header set          *)

WireNames == {"Accept", "ACCEPT-LANGUAGE", "User-Agent", "Cookie", "Authorization",
              "If-None-Match", "Host"}
WireValues == {Lit(<<"x">>), <<>>}
InboundHeaderSets == UNION {[S -> WireValues] : S \in SUBSET WireNames}

HeaderInit ==
    /\ impl \in {"edge", "legacy"}
    /\ inbound \in InboundHeaderSets
    /\ targetHost \in {Lit(<<"h">>), Lit(<<"c">>)}
    /\ outHeaders = NoHeaders /\ hpc = "init"
    /\ pc = "idle" /\ path = <<>> /\ method = "" /\ targetUrl = <<>>
    /\ up = Idle /\ timer = "unset" /\ fetchState = "none" /\ fetchCount = 0
    /\ aborts = <<>> /\ error = Idle /\ proxyRequest = Idle /\ resp = Idle
    /\ html = <<>> /\ rwTarget = <<>> /\ once = Idle /\ twice = Idle /\ rwpc = "idle"

CreateProxyHeaders ==
    /\ hpc = "init"
    /\ outHeaders' = createProxyHeaders(impl, inbound, targetHost)
    /\ hpc' = "done"
    /\ UNCHANGED <<inbound, targetHost, handlerVars, rewriteVars>>

HeaderNext == CreateProxyHeaders
SpecHeaders == HeaderInit /\ [][HeaderNext]_vars

----------------------------------------------------------------------------
(* Claims about the handler (Spec)                                         *)

IsHttpTarget(t) == URL(t).ok /\ URL(t).protocol \in {"http:", "https:"}
Answered == pc = "done" /\ isProxyPath(path)

\* C1: in edge-function.js a /proxy request whose url parameter is missing,
\* unparseable or not http(s) is answered 400 without a fetch, and a target
\* is forwarded exactly when it parses as http or https.
C1_InvalidTargetIs400 ==
    (impl = "edge" /\ Answered) =>
        /\ ~IsHttpTarget(targetUrl) => resp.status = 400 /\ fetchCount = 0
        /\ IsHttpTarget(targetUrl) => fetchCount = 1

\* C2: in edge-function.js an abort only ever meets a pending fetch; when it
\* does, the fetch is rejected with AbortError and the client gets 504 with
\* the timeout text; once the fetch has settled the timer is no longer armed.
C2_TimeoutAbortsAndTimerCleared ==
    impl = "edge" =>
        /\ \A i \in DOMAIN aborts : aborts[i] = "pending"
        /\ aborts # <<>> =>
              /\ pc = "done" /\ fetchState = "rejected" /\ error = AbortError
              /\ resp = ErrorResponse(504, TimeoutText)
        /\ fetchState \in {"resolved", "rejected"} => timer # "armed"
C2_Witness ==
    /\ impl = "edge" /\ aborts = <<"pending">> /\ timer = "fired"
    /\ pc = "done" /\ resp.status = 504

C4_NoStaleContentLength ==
    (impl = "edge" /\ pc = "done" /\ resp.kind = "rewritten") =>
        (hHas(resp.headers, "Content-Length") =>
            resp.headers["content-length"] = byteLength(resp.body))

\* the matched references of a document: kind, position of the value, value
References(doc) ==
    {[kind |-> k, m |-> MatchAt(doc, i, k)] :
        i \in DOMAIN doc, k \in {"src", "link"}}
ValueOf(doc, r) == SubSeq(doc, r.m.from, r.m.to)
\* attr="value" as it stands in the document
AttributeOf(doc, r) == SubSeq(doc, r.m.from - 2, r.m.k)
AttributeWith(doc, r, value) ==
    SubSeq(doc, r.m.from - 2, r.m.from - 1) \o value \o <<doc[r.m.k]>>
Kept(out, doc, r) == includes(out, AttributeOf(doc, r))
Malformed(v, target) == ~URLWithBase(v, baseUrlOf(target)).ok
HasMalformed(doc, target) ==
    \E r \in References(doc) : r.m.hit /\ Malformed(ValueOf(doc, r), target)
\* the HTML branch of edge-function.js has run to its end
BodyWasRead ==
    /\ impl = "edge" /\ pc = "done" /\ fetchState = "resolved"
    /\ up # Idle /\ includesTextHtml(hGetOrEmpty(up.headers, "Content-Type"))
    /\ error \notin TransportErrors

\* C8: with a malformed reference in the HTML body the client gets
\* the upstream status and the rewritten body, every malformed reference
\* unmodified and every other one proxied.
C8_MalformedLeftUnmodified ==
    (BodyWasRead /\ HasMalformed(up.body, targetUrl)) =>
        /\ resp.kind = "rewritten" /\ resp.status = up.status
        /\ \A r \in References(up.body) : r.m.hit =>
              IF Malformed(ValueOf(up.body, r), targetUrl)
              THEN Kept(resp.body, up.body, r)
              ELSE ~Kept(resp.body, up.body, r)

\* C9: an error response of edge-function.js is text/plain and its body does
\* not hold the caller's target URL as given.
C9_NoTargetInErrorBody ==
    (impl = "edge" /\ pc = "done" /\ resp.kind = "error") =>
        /\ resp.headers = PlainText
        /\ targetUrl # <<>> => ~includes(resp.body, targetUrl)

----------------------------------------------------------------------------
(* Claims about rewriteHtml (SpecRewrite)                                  *)

\* C5: for both rewriteHtml implementations a second application changes
\* nothing: rewriteHtml(rewriteHtml(d)) = rewriteHtml(d).
C5_Idempotent == rwpc = "twice" => twice = once

ProtectedSchemes == {"#", "javascript:", "mailto:", "tel:"}

\* C6: rewriteHtml of edge-function.js leaves unchanged every matched src or
\* <link> href value that is a data: URI and every matched href value that
\* starts with #, javascript:, mailto: or tel:.
C6_ProtectedNeverWrapped ==
    (impl = "edge" /\ rwpc # "init") =>
        \A r \in References(html) : r.m.hit =>
            LET v == ValueOf(html, r)
            IN (\/ startsWith(v, Lit(<<"data:">>))
                \/ /\ r.kind = "link"
                   /\ \E p \in ProtectedSchemes : startsWith(v, Lit(<<p>>)))
               => Kept(once.text, html, r)

\* C7: every reference rewriteHtml of edge-function.js rewrites is replaced
\* by the proxy URL of its resolution against the target's scheme://host
\* (an absolute http(s) URL by the proxy URL of itself).
C7_ResolvedBeforeWrap ==
    (impl = "edge" /\ rwpc # "init") =>
        \A r \in References(html) :
            LET v == ValueOf(html, r)
            IN (/\ r.m.hit
                /\ ~Kept(once.text, html, r)
                /\ ~Malformed(v, rwTarget))
               => includes(once.text, AttributeWith(html, r,
                      Wrap(ProxyOrigin,
                           IF isAbsoluteHttp(v) THEN v
                           ELSE URLWithBase(v, baseUrlOf(rwTarget)).href)))

----------------------------------------------------------------------------
(* Claims about createProxyHeaders (SpecHeaders)                           *)

ForwardedNames == {"accept", "accept-language", "accept-encoding", "content-type",
                   "user-agent", "cache-control", "host"}
InboundUserAgents == {k \in DOMAIN inbound : toLowerCase(k) = "user-agent"}

\* C10: createProxyHeaders returns only names of the allow-list and host;
\* Host is the target host whatever the inbound Host; User-Agent is the
\* inbound one when there is one and the default otherwise.
C10_OnlyAllowedHeaders ==
    hpc = "done" =>
        /\ DOMAIN outHeaders \subseteq ForwardedNames
        /\ outHeaders["host"] = targetHost
        /\ IF InboundUserAgents = {}
           THEN outHeaders["user-agent"] = DefaultUserAgent
           ELSE /\ \A k \in InboundUserAgents : outHeaders["user-agent"] = inbound[k]
                /\ outHeaders["user-agent"] # DefaultUserAgent
C10_Witness ==
    /\ hpc = "done"
    /\ {"Cookie", "Authorization", "If-None-Match", "Host", "Accept"} \subseteq DOMAIN inbound
    /\ InboundUserAgents = {}
    /\ outHeaders["user-agent"] = DefaultUserAgent
    /\ outHeaders["accept"] = inbound["Accept"]

====
